---- MODULE Spec2Model ----
(***************************************************************************)
(* The call graph of src/graph.rs: a registry of nodes (one per function), *)
(* a list of call edges, the identity lookups, the single-hop backward     *)
(* query and the dot rendering.                                            *)
(*                                                                         *)
(* Vec indices are 0-based in the source and sequences are 1-based here:   *)
(* the element the source calls v[i] is v[i + 1] below (operator At).      *)
(* Option<T> is a sequence of length at most one: None is <<>> and         *)
(* Some(x) is <<x>>.                                                       *)
(***************************************************************************)
EXTENDS Naturals, Sequences, FiniteSets

VARIABLES
    nodes,   \* Graph.nodes : Vec<Node>
    edges,   \* Graph.edges : Vec<Edge>
    last     \* the most recent call: its name, its argument and what it returned

vars == <<nodes, edges, last>>

\* Bound on the number of add_node calls plus add_edge calls of one run.
MaxSize == 3

\* The handles the discovery pass hands over (HirId, DefId) and the labels.
HirIds == {1, 2}
DefIds == {1, 2}
Labels == {"f", "g"}
TyLabels == {"Result"}
\* The call expression the edges of a run are recorded for (HirId).
CallIds == {2}

None == <<>>
Some(x) == <<x>>

At(v, i) == v[i + 1]

\* enum NodeKind { LocalFn(DefId, HirId), NonLocalFn(DefId) }
LocalFn(def_id, hir_id) == [tag |-> "LocalFn", def |-> def_id, hir |-> hir_id]
NonLocalFn(id) == [tag |-> "NonLocalFn", def |-> id]

NodeKinds ==
    {LocalFn(d, h) : d \in DefIds, h \in HirIds} \cup {NonLocalFn(d) : d \in DefIds}

\* The functions the discovery pass may register, as (label, kind): two local
\* functions and one external function whose DefId is the first one's.  Any
\* of them may be registered more than once; external DefId 2 never is.
Functions ==
    { <<"f", LocalFn(1, 1)>>, <<"g", LocalFn(2, 2)>>, <<"f", NonLocalFn(1)>> }

\* Node::new with the id left at its zero value.
NodeNewZeroId(node_id, label, node_type) ==
    [id |-> 0, label |-> label, kind |-> node_type, panics |-> FALSE]

\* Node::new
NodeNew(node_id, label, node_type) ==
    [id |-> node_id, label |-> label, kind |-> node_type, panics |-> FALSE]

\* Node::id
NodeIdOf(n) == n.id

\* Edge::new
EdgeNew(from, to, call_id) ==
    [from |-> from, to |-> to, call_id |-> call_id, ty |-> None]

\* impl PartialEq for NodeKind
NodeKindEq(k1, k2) ==
    CASE k1.tag = "LocalFn" /\ k2.tag = "LocalFn" ->
             k1.def = k2.def /\ k1.hir = k2.hir
      [] k1.tag = "NonLocalFn" /\ k2.tag = "NonLocalFn" -> k1.def = k2.def
      [] OTHER -> FALSE

\* What #[derive(PartialEq)] would compare: every field.
NodeEqAllFields(a, b) ==
    a.id = b.id /\ a.label = b.label /\ NodeKindEq(a.kind, b.kind)
    /\ a.panics = b.panics

\* impl PartialEq for Node
NodeEq(a, b) == a.id = b.id /\ NodeKindEq(a.kind, b.kind)

EdgeEqAllFields(a, b) ==
    a.to = b.to /\ a.from = b.from /\ a.call_id = b.call_id /\ a.ty = b.ty

\* impl PartialEq for Edge
EdgeEq(a, b) == a.to = b.to /\ a.from = b.from

\* Vec::contains with the element type's PartialEq
ContainsNode(v, n) == \E i \in 1..Len(v) : NodeEq(v[i], n)

\* Graph::find_local_fn_node: the scan from position k (1-based) on.
RECURSIVE ScanLocalFn(_, _, _)
ScanLocalFn(ns, id, k) ==
    IF k > Len(ns) THEN None
    ELSE IF ns[k].kind.tag = "LocalFn" /\ ns[k].kind.hir = id THEN Some(ns[k])
    ELSE ScanLocalFn(ns, id, k + 1)

\* The scan run from the back: it returns the last match.
RECURSIVE ScanLocalFnBack(_, _, _)
ScanLocalFnBack(ns, id, k) ==
    IF k < 1 THEN None
    ELSE IF ns[k].kind.tag = "LocalFn" /\ ns[k].kind.hir = id THEN Some(ns[k])
    ELSE ScanLocalFnBack(ns, id, k - 1)

FindLocalFnNodeLastMatch(ns, id) == ScanLocalFnBack(ns, id, Len(ns))

\* Graph::find_local_fn_node
FindLocalFnNode(ns, id) == ScanLocalFn(ns, id, 1)

\* Graph::find_non_local_fn_node: the scan from position k (1-based) on.
RECURSIVE ScanNonLocalFn(_, _, _)
ScanNonLocalFn(ns, id, k) ==
    IF k > Len(ns) THEN None
    ELSE IF ns[k].kind.tag = "NonLocalFn" /\ ns[k].kind.def = id THEN Some(ns[k])
    ELSE ScanNonLocalFn(ns, id, k + 1)

\* Graph::find_non_local_fn_node
FindNonLocalFnNode(ns, id) == ScanNonLocalFn(ns, id, 1)

\* incoming_edges(node): the mutable references to the edges ending at node,
\* each reference being the slot (0-based index) of the edge in Graph.edges.
RECURSIVE ScanIncoming(_, _, _)
ScanIncoming(es, node, k) ==
    IF k > Len(es) THEN <<>>
    ELSE IF es[k].to = node.id THEN <<k - 1>> \o ScanIncoming(es, node, k + 1)
    ELSE ScanIncoming(es, node, k + 1)

IncomingEdgesOf(es, node) == ScanIncoming(es, node, 1)

\* A call that returns v, or one that ends in a panic (index out of bounds).
Returned(v) == [ok |-> TRUE, val |-> v]
Panicked == [ok |-> FALSE, val |-> <<>>]

\* GraphWalk::nodes: the loop over self.edges from edge k on, acc being the
\* local vector `nodes`.  self.nodes[edge.from] and self.nodes[edge.to] panic
\* when the index is not below self.nodes.len().
RECURSIVE WalkNodes(_, _, _, _)
WalkNodes(ns, es, k, acc) ==
    IF k > Len(es) THEN Returned(acc)
    ELSE IF es[k].from >= Len(ns) THEN Panicked
    ELSE LET acc1 == IF ~ContainsNode(acc, At(ns, es[k].from))
                     THEN Append(acc, At(ns, es[k].from)) ELSE acc
         IN  IF es[k].to >= Len(ns) THEN Panicked
             ELSE LET acc2 == IF ~ContainsNode(acc1, At(ns, es[k].to))
                              THEN Append(acc1, At(ns, es[k].to)) ELSE acc1
                  IN  WalkNodes(ns, es, k + 1, acc2)

\* GraphWalk::nodes
GraphWalkNodes(ns, es) == WalkNodes(ns, es, 1, <<>>)

\* GraphWalk::edges
GraphWalkEdges(es) == es

\* GraphWalk::source, GraphWalk::target
Source(ns, edge) == At(ns, edge.from)
Target(ns, edge) == At(ns, edge.to)

\* Labeller::node_id: format!("n{:?}", n.id), kept as the pair of its parts.
LabellerNodeId(n) == <<"n", n.id>>

\* Labeller::node_label
NodeLabel(n) == n.label

\* Labeller::edge_label
EdgeLabel(e) == IF e.ty = None THEN "unknown" ELSE e.ty[1]

\* Graph::to_dot: dot::render asks the graph for its nodes, writes one entry
\* per node (text id, label), asks for its edges and writes one entry per edge
\* (text ids of source and target, label).  A panic in GraphWalk::nodes ends
\* the call.
ToDotOf(ns, es) ==
    LET w == GraphWalkNodes(ns, es)
        es2 == GraphWalkEdges(es)
    IN  IF ~w.ok THEN Panicked
        ELSE Returned(
               [nodes |-> [i \in 1..Len(w.val) |->
                              [id |-> LabellerNodeId(w.val[i]),
                               label |-> NodeLabel(w.val[i])]],
                edges |-> [k \in 1..Len(es2) |->
                              [source |-> LabellerNodeId(Source(ns, es2[k])),
                               target |-> LabellerNodeId(Target(ns, es2[k])),
                               label |-> EdgeLabel(es2[k])]]])

Call(op, arg, ret) == [op |-> op, arg |-> arg, ret |-> ret]

\* Graph::new
Init ==
    /\ nodes = <<>>
    /\ edges = <<>>
    /\ last = Call("new", <<>>, <<>>)

\* Graph::add_node
AddNode(label, node_kind) ==
    /\ Len(nodes) + Len(edges) < MaxSize
    /\ LET node == NodeNew(Len(nodes), label, node_kind)
           id == NodeIdOf(node)
       IN  /\ nodes' = Append(nodes, node)
           /\ last' = Call("add_node", <<label, node_kind>>, id)
    /\ UNCHANGED edges

\* add_edge as a set insertion would do it: an edge equal to a stored one
\* (same from and to) is not stored again.
AddEdgeDedup(edge) ==
    /\ Len(nodes) + Len(edges) < MaxSize
    /\ edges' = IF \E k \in 1..Len(edges) : EdgeEq(edges[k], edge)
                THEN edges ELSE Append(edges, edge)
    /\ last' = Call("add_edge", edge, <<>>)
    /\ UNCHANGED nodes

\* Graph::add_edge, on an edge built by Edge::new.  The endpoints are any ids
\* handed out so far, or the next id, which no node has yet.
AddEdge(edge) ==
    /\ Len(nodes) + Len(edges) < MaxSize
    /\ edges' = Append(edges, edge)
    /\ last' = Call("add_edge", edge, <<>>)
    /\ UNCHANGED nodes

\* The write done on a clone of the node: the registry keeps the old flag.
SetPanicsOnClone(i, v) ==
    /\ i < Len(nodes)
    /\ last' = Call("set_panics", <<i, v>>, <<>>)
    /\ UNCHANGED <<nodes, edges>>

\* graph.nodes[i].panics = v (both fields are public)
SetPanics(i, v) ==
    /\ i < Len(nodes)
    /\ nodes' = [nodes EXCEPT ![i + 1].panics = v]
    /\ last' = Call("set_panics", <<i, v>>, <<>>)
    /\ UNCHANGED edges

\* graph.edges[i].ty = Some(t) (both fields are public)
SetTy(i, t) ==
    /\ i < Len(edges)
    /\ edges' = [edges EXCEPT ![i + 1].ty = Some(t)]
    /\ last' = Call("set_ty", <<i, t>>, <<>>)
    /\ UNCHANGED nodes

\* Graph::find_local_fn_node
FindLocal(id) ==
    /\ last' = Call("find_local_fn_node", id, FindLocalFnNode(nodes, id))
    /\ UNCHANGED <<nodes, edges>>

\* Graph::find_non_local_fn_node
FindNonLocal(id) ==
    /\ last' = Call("find_non_local_fn_node", id, FindNonLocalFnNode(nodes, id))
    /\ UNCHANGED <<nodes, edges>>

\* incoming_edges(node), node being a node of the registry
IncomingEdges(i) ==
    /\ i < Len(nodes)
    /\ last' = Call("incoming_edges", i, IncomingEdgesOf(edges, At(nodes, i)))
    /\ UNCHANGED <<nodes, edges>>

\* A write of ty through the r-th reference that incoming_edges just returned.
WriteTy(r, t) ==
    /\ last.op = "incoming_edges"
    /\ r \in 1..Len(last.ret)
    /\ edges' = [edges EXCEPT ![last.ret[r] + 1].ty = Some(t)]
    /\ last' = Call("write_ty", <<last.ret[r], t>>, <<>>)
    /\ UNCHANGED nodes

\* Graph::to_dot
ToDot ==
    /\ last' = Call("to_dot", <<>>, ToDotOf(nodes, edges))
    /\ UNCHANGED <<nodes, edges>>

\* a == b on the two nodes at hand (impl PartialEq for Node)
CompareNodes ==
    /\ last.op = "two_nodes"
    /\ last' = Call("node_eq", last.arg, NodeEq(last.arg[1], last.arg[2]))
    /\ UNCHANGED <<nodes, edges>>

\* a == b on the two edges at hand (impl PartialEq for Edge)
CompareEdges ==
    /\ last.op = "two_edges"
    /\ last' = Call("edge_eq", last.arg, EdgeEq(last.arg[1], last.arg[2]))
    /\ UNCHANGED <<nodes, edges>>

Next ==
    \/ \E f \in Functions : AddNode(f[1], f[2])
    \/ \E from, to \in 0..Len(nodes), c \in CallIds : AddEdge(EdgeNew(from, to, c))
    \/ \E i \in 0..(Len(nodes) - 1), v \in BOOLEAN : SetPanics(i, v)
    \/ \E i \in 0..(Len(edges) - 1), t \in TyLabels : SetTy(i, t)
    \/ \E id \in HirIds : FindLocal(id)
    \/ \E id \in DefIds : FindNonLocal(id)
    \/ \E i \in 0..(Len(nodes) - 1) : IncomingEdges(i)
    \/ \E r \in 1..MaxSize, t \in TyLabels : WriteTy(r, t)
    \/ ToDot

Spec == Init /\ [][Next]_vars

\* The node and edge values the comparisons are run on.
NodeValues ==
    [id : 0..(MaxSize - 1), label : Labels, kind : NodeKinds, panics : BOOLEAN]

EdgeValues ==
    [from : 0..(MaxSize - 1), to : 0..(MaxSize - 1), call_id : HirIds,
     ty : {None} \cup {Some(t) : t \in TyLabels}]

\* Two nodes, or two edges, at hand and not yet compared.
InitEq ==
    /\ nodes = <<>>
    /\ edges = <<>>
    /\ \/ \E a, b \in NodeValues : last = Call("two_nodes", <<a, b>>, <<>>)
       \/ \E a, b \in EdgeValues : last = Call("two_edges", <<a, b>>, <<>>)

NextEq ==
    \/ CompareNodes
    \/ CompareEdges

\* The two equalities alone, on arbitrary pairs of values.
SpecEq == InitEq /\ [][NextEq]_vars

(***************************************************************************)
(* The claims.                                                             *)
(***************************************************************************)

MinOf(S) == CHOOSE x \in S : \A y \in S : x <= y

\* The positions (1-based) of the registry nodes a lookup of hir id h matches.
LocalMatches(h) ==
    {i \in 1..Len(nodes) : nodes[i].kind.tag = "LocalFn" /\ nodes[i].kind.hir = h}

\* The id of the node a lookup found, as an Option.
FoundId(r) == IF r = None THEN None ELSE Some(r[1].id)

\* C1: the node at position i of the registry has id i, and the k-th add_node
\* call (the one that made the registry k long) returned k - 1.
C1_SequentialIds ==
    /\ \A i \in 0..(Len(nodes) - 1) : At(nodes, i).id = i
    /\ last.op = "add_node" => last.ret = Len(nodes) - 1

\* A second add_node, after an add_edge, returned 1.
C1_Witness ==
    /\ last.op = "add_node"
    /\ last.ret = 1
    /\ Len(nodes) = 2
    /\ Len(edges) = 1

\* C2: every edge of the edge list has from and to below the number of nodes.
C2_EdgesIndexNodes ==
    \A k \in 1..Len(edges) :
        edges[k].from < Len(nodes) /\ edges[k].to < Len(nodes)

\* What find_local_fn_node(h) is to return on the registry: the matching
\* LocalFn node of lowest id, or None.
FirstLocalMatch(h) ==
    IF LocalMatches(h) = {} THEN None ELSE Some(nodes[MinOf(LocalMatches(h))])

\* C3: find_local_fn_node(h) returns the first-inserted LocalFn node whose
\* hir id is h, None when there is none, and never a NonLocalFn node; this
\* holds of the call just made and of a call made in any state.
C3_FirstMatch ==
    /\ \A h \in HirIds :
          /\ FindLocalFnNode(nodes, h) = FirstLocalMatch(h)
          /\ FindLocalFnNode(nodes, h) # None =>
                FindLocalFnNode(nodes, h)[1].kind.tag = "LocalFn"
    /\ last.op = "find_local_fn_node" => last.ret = FirstLocalMatch(last.arg)

\* Two LocalFn nodes match behind a NonLocalFn node, and the lookup returned
\* the first of the two.
C3_Witness ==
    /\ last.op = "find_local_fn_node"
    /\ Cardinality(LocalMatches(last.arg)) >= 2
    /\ nodes[1].kind.tag = "NonLocalFn"
    /\ last.ret # None
    /\ last.ret[1].id = 1

\* The endpoints of the edge list in walking order (from before to), from
\* edge k on.
RECURSIVE EndpointsFrom(_, _)
EndpointsFrom(es, k) ==
    IF k > Len(es) THEN <<>>
    ELSE <<es[k].from, es[k].to>> \o EndpointsFrom(es, k + 1)

\* ids, without the ids at or above n and without repetitions, each id kept
\* at its first appearance.
RECURSIVE FirstAppearances(_, _, _, _)
FirstAppearances(ids, n, k, seen) ==
    IF k > Len(ids) THEN <<>>
    ELSE IF ids[k] >= n \/ ids[k] \in seen
         THEN FirstAppearances(ids, n, k + 1, seen)
         ELSE <<ids[k]>> \o FirstAppearances(ids, n, k + 1, seen \cup {ids[k]})

\* The ids of the registered nodes that are an endpoint of an edge, in order
\* of first appearance.
EndpointIds == FirstAppearances(EndpointsFrom(edges, 1), Len(nodes), 1, {})

\* The node entries of a rendering that lists exactly those nodes.
EndpointEntries ==
    [i \in 1..Len(EndpointIds) |->
        [id |-> <<"n", EndpointIds[i]>>, label |-> At(nodes, EndpointIds[i]).label]]

\* C4: to_dot renders exactly the registered nodes that are an endpoint of
\* an edge, each once, in order of first appearance.
C4_RenderedNodes ==
    last.op = "to_dot" =>
        /\ last.ret.ok
        /\ last.ret.val.nodes = EndpointEntries

\* C4 on the graphs none of whose edges dangles.
C4_RenderedNodesNoDangling ==
    (last.op = "to_dot" /\ C2_EdgesIndexNodes) =>
        /\ last.ret.ok
        /\ last.ret.val.nodes = EndpointEntries

\* to_dot panics exactly on the graphs with a dangling edge.
ToDotPanicsIffDangling ==
    last.op = "to_dot" => (last.ret.ok <=> C2_EdgesIndexNodes)

\* The slots (0-based) of the edges whose to is id.
SlotsTo(id) == {k \in 0..(Len(edges) - 1) : At(edges, k).to = id}

\* What a rendering shows for the edge in slot k.
ShownLabel(k) == ToDotOf(nodes, edges).val.edges[k + 1].label

\* C5: incoming_edges(B) returns the edges whose to is B's id, in insertion
\* order, and a ty written through a returned reference is stored and is the
\* label the next rendering shows for that edge.
C5_IncomingEdges ==
    /\ last.op = "incoming_edges" =>
          /\ \A r \in 1..Len(last.ret) : last.ret[r] \in SlotsTo(last.arg)
          /\ \A k \in SlotsTo(last.arg) : \E r \in 1..Len(last.ret) : last.ret[r] = k
          /\ \A r \in 1..(Len(last.ret) - 1) : last.ret[r] < last.ret[r + 1]
    /\ last.op = "write_ty" =>
          /\ At(edges, last.arg[1]).ty = Some(last.arg[2])
          /\ ToDotOf(nodes, edges).ok
          /\ ShownLabel(last.arg[1]) = last.arg[2]

\* C5 on the graphs none of whose edges dangles.
C5_IncomingEdgesNoDangling == C2_EdgesIndexNodes => C5_IncomingEdges

\* C6: two nodes compare equal exactly when their ids are equal and their
\* kinds are the same variant with the same handles, whatever their labels
\* and panics flags; a LocalFn and a NonLocalFn node never compare equal.
C6_NodeEquality ==
    last.op = "node_eq" =>
        /\ last.ret <=> (last.arg[1].id = last.arg[2].id
                         /\ last.arg[1].kind = last.arg[2].kind)
        /\ last.arg[1].kind.tag # last.arg[2].kind.tag => ~last.ret

\* Two nodes that differ in label and in panics compared equal.
C6_Witness ==
    /\ last.op = "node_eq"
    /\ last.ret
    /\ last.arg[1].label # last.arg[2].label
    /\ last.arg[1].panics # last.arg[2].panics

\* C7: two edges compare equal exactly when their from values are equal and
\* their to values are equal, whatever their call ids and ty values.
C7_EdgeEquality ==
    last.op = "edge_eq" =>
        (last.ret <=> (last.arg[1].from = last.arg[2].from
                       /\ last.arg[1].to = last.arg[2].to))

\* Two edges that differ in call id and in ty compared equal.
C7_Witness ==
    /\ last.op = "edge_eq"
    /\ last.ret
    /\ last.arg[1].call_id # last.arg[2].call_id
    /\ last.arg[1].ty # last.arg[2].ty

\* A lookup returns the node as the registry holds it, flag included.
C8_ReadsSeeRegistry ==
    (last.op \in {"find_local_fn_node", "find_non_local_fn_node"} /\ last.ret # None)
        => last.ret[1] = At(nodes, last.ret[1].id)

\* One step: add_node stores panics = false; a write of v to node i stores v
\* there and changes nothing else; no other step changes a stored flag.
C8_Step ==
    /\ last'.op = "add_node" => ~nodes'[Len(nodes')].panics
    /\ last'.op = "set_panics" =>
          /\ nodes' = [nodes EXCEPT ![last'.arg[1] + 1].panics = last'.arg[2]]
          /\ At(nodes', last'.arg[1]).panics = last'.arg[2]
          /\ At(nodes', last'.arg[1]).id = At(nodes, last'.arg[1]).id
          /\ At(nodes', last'.arg[1]).label = At(nodes, last'.arg[1]).label
          /\ At(nodes', last'.arg[1]).kind = At(nodes, last'.arg[1]).kind
          /\ \A j \in 0..(Len(nodes) - 1) :
                j # last'.arg[1] => At(nodes', j) = At(nodes, j)
          /\ Len(nodes') = Len(nodes)
          /\ edges' = edges
          /\ \A h \in HirIds :
                FoundId(FindLocalFnNode(nodes', h)) = FoundId(FindLocalFnNode(nodes, h))
          /\ \A d \in DefIds :
                FoundId(FindNonLocalFnNode(nodes', d))
                    = FoundId(FindNonLocalFnNode(nodes, d))
          /\ GraphWalkNodes(nodes', edges').ok = GraphWalkNodes(nodes, edges).ok
          /\ ToDotOf(nodes', edges') = ToDotOf(nodes, edges)
    /\ last'.op # "set_panics" =>
          \A j \in 0..(Len(nodes) - 1) : At(nodes', j).panics = At(nodes, j).panics

\* C8: nodes start with panics = false; a write to node i's flag is in place
\* and the last write wins: lookups return the stored flag, which only a
\* write changes, and the write leaves the rest of the graph, the lookups'
\* choice of node and the rendering as they were.
C8_PanicsWrite == []C8_ReadsSeeRegistry /\ [][C8_Step]_vars

\* A lookup returned a node whose flag a write had set.
C8_Witness ==
    /\ last.op = "find_local_fn_node"
    /\ last.ret # None
    /\ last.ret[1].panics
    /\ last.ret[1].id = 1

\* One step of any operation, seen from the registry and the edge list.
C9_Step ==
    /\ Len(nodes') >= Len(nodes)
    /\ Len(edges') >= Len(edges)
    /\ \A j \in 1..Len(nodes) :
          /\ nodes'[j].id = nodes[j].id
          /\ nodes'[j].label = nodes[j].label
          /\ nodes'[j].kind = nodes[j].kind
    /\ \A k \in 1..Len(edges) :
          /\ edges'[k].from = edges[k].from
          /\ edges'[k].to = edges[k].to
          /\ edges'[k].call_id = edges[k].call_id
    /\ last'.op = "add_node" =>
          /\ Len(nodes') = Len(nodes) + 1
          /\ SubSeq(nodes', 1, Len(nodes)) = nodes
          /\ edges' = edges
    /\ last'.op = "add_edge" =>
          /\ Len(edges') = Len(edges) + 1
          /\ SubSeq(edges', 1, Len(edges)) = edges
          /\ edges'[Len(edges')] = last'.arg
          /\ nodes' = nodes
    /\ last'.op \in {"find_local_fn_node", "find_non_local_fn_node", "to_dot"} =>
          /\ nodes' = nodes
          /\ edges' = edges

\* C9: add_node appends one node and leaves the edges and the earlier nodes
\* alone; add_edge appends one edge and leaves the nodes and the earlier edges
\* alone; the lookups and to_dot change nothing; no step removes or reorders
\* a node or an edge.
C9_AppendOnly == [][C9_Step]_vars

\* An edge was appended behind an edge with the same endpoints.
C9_Witness ==
    /\ last.op = "add_edge"
    /\ Len(edges) = 2
    /\ EdgeEq(edges[1], edges[2])
    /\ Len(nodes) = 1

\* The edge entries of a rendering that lists the whole edge list in order.
EdgeEntries ==
    [k \in 1..Len(edges) |->
        [source |-> <<"n", edges[k].from>>, target |-> <<"n", edges[k].to>>,
         label |-> IF edges[k].ty = None THEN "unknown" ELSE edges[k].ty[1]]]

\* C10: to_dot renders one entry per edge of the edge list, in insertion
\* order, edges with the same endpoints included, each labelled with its ty,
\* or with "unknown" when ty is unset, as it is after Edge::new.
C10_RenderedEdges ==
    /\ last.op = "add_edge" => edges[Len(edges)].ty = None
    /\ last.op = "to_dot" =>
          /\ last.ret.ok
          /\ last.ret.val.edges = EdgeEntries

\* C10 on the graphs none of whose edges dangles.
C10_RenderedEdgesNoDangling == C2_EdgesIndexNodes => C10_RenderedEdges

====
